---------------------------- MODULE Spec2Model ----------------------------
(***************************************************************************)
(* A model of the deepl-api client (src/src/lib.rs): the DeepL handle, the *)
(* four operations usage_information, source_languages, target_languages   *)
(* and translate, the shared http_request dispatch, and the serde decoding *)
(* of the response bodies.                                                 *)
(*                                                                         *)
(* An invocation is an async future.  It runs without suspension up to     *)
(* `send().await` (the request is on the wire), resumes when the response  *)
(* head arrives or the transport fails, and, when it goes on to read the   *)
(* body, resumes once more when `json().await` resolves.  The caller may   *)
(* drop the future at either suspension point.                             *)
(***************************************************************************)
EXTENDS Integers, Sequences, FiniteSets

\* ------------------------------------------------------------------ bounds

\* Longest `texts` sequence of a translation request.
MaxTexts == 2

\* Longest `translations` array the server sends back.
MaxResults == 2

\* Number of invocation slots (futures that may exist at the same time).
MaxCalls == 2

\* The redirects one send() follows before its policy gives up (the default
\* policy of reqwest::Client::new() follows up to ten).
MaxRedirects == 2

\* ------------------------------------------------------------- Option<T>

None == [some |-> FALSE]

Some(x) == [some |-> TRUE, v |-> x]

\* Sequences over S of length at most n.
SeqsUpTo(S, n) == UNION {[1..k -> S] : k \in 0..n}

\* ------------------------------------------------------------ JSON values
\* A response body is either text that is not one JSON value (NotJson: also
\* the empty body, and JSON followed by trailing text) or a JSON value.

NotJson == [t |-> "text"]

JNum(n) == [t |-> "num", n |-> n]

JStr(s) == [t |-> "str", s |-> s]

JObj(r) == [t |-> "obj", o |-> r]

JArr(q) == [t |-> "arr", a |-> q]

\* The body slot of an invocation that has read no body.
NoBody == [t |-> "none"]

\* --------------------------------------------------- serde decoding (json)
\* A decoder yields Some(value) or None (serde's Err).  A struct deriving
\* Deserialize is read from a JSON object that holds every field with a value
\* of the field's type (unknown fields are skipped), and serde_json reads it
\* as well from a JSON array that holds exactly the fields' values in the
\* order of declaration.

DecodeString(j) == IF j.t = "str" THEN Some(j.s) ELSE None

DecodeU64(j) == IF j.t = "num" /\ j.n >= 0 THEN Some(j.n) ELSE None

\* The named field of an object, or the k-th element of an array of exactly
\* n elements; None when the body offers neither.
Field(j, name, k, n) ==
    IF j.t = "obj"
    THEN IF name \in DOMAIN j.o THEN Some(j.o[name]) ELSE None
    ELSE IF j.t = "arr" /\ Len(j.a) = n THEN Some(j.a[k]) ELSE None

DecodeStringField(j, name, k, n) ==
    LET f == Field(j, name, k, n) IN IF f.some THEN DecodeString(f.v) ELSE None

DecodeU64Field(j, name, k, n) ==
    LET f == Field(j, name, k, n) IN IF f.some THEN DecodeU64(f.v) ELSE None

UsageInformationMissingAsZero(j) ==
    LET limit == DecodeU64Field(j, "character_limit", 1, 2)
        count == DecodeU64Field(j, "character_count", 2, 2)
    IN  IF j.t = "obj"
        THEN Some([character_limit |-> IF limit.some THEN limit.v ELSE 0,
                   character_count |-> IF count.some THEN count.v ELSE 0])
        ELSE None

UsageInformation(j) ==
    LET limit == DecodeU64Field(j, "character_limit", 1, 2)
        count == DecodeU64Field(j, "character_count", 2, 2)
    IN  IF limit.some /\ count.some
        THEN Some([character_limit |-> limit.v, character_count |-> count.v])
        ELSE None

LanguageInformation(j) ==
    LET language == DecodeStringField(j, "language", 1, 2)
        name == DecodeStringField(j, "name", 2, 2)
    IN  IF language.some /\ name.some
        THEN Some([language |-> language.v, name |-> name.v])
        ELSE None

LanguageList(j) ==
    IF j.t = "arr" /\ \A k \in 1..Len(j.a) : LanguageInformation(j.a[k]).some
    THEN Some([k \in 1..Len(j.a) |-> LanguageInformation(j.a[k]).v])
    ELSE None

TranslatedText(j) ==
    LET lang == DecodeStringField(j, "detected_source_language", 1, 2)
        text == DecodeStringField(j, "text", 2, 2)
    IN  IF lang.some /\ text.some
        THEN Some([detected_source_language |-> lang.v, text |-> text.v])
        ELSE None

\* Vec<TranslatedText>
DecodeTranslations(j) ==
    IF j.t = "arr" /\ \A k \in 1..Len(j.a) : TranslatedText(j.a[k]).some
    THEN Some([k \in 1..Len(j.a) |-> TranslatedText(j.a[k]).v])
    ELSE None

TranslatedTextList(j) ==
    LET f == Field(j, "translations", 1, 1)
        translations == IF f.some THEN DecodeTranslations(f.v) ELSE None
    IN  IF translations.some
        THEN Some([translations |-> translations.v])
        ELSE None

ServerErrorMessage(j) ==
    LET message == DecodeStringField(j, "message", 1, 1)
    IN  IF message.some THEN Some([message |-> message.v]) ELSE None


\* ------------------------------------------------- translate: the request
\* A query is a sequence of <<name, value>> pairs, in the order pushed.

SplitSentencesSwapped(split_sentences) ==
    CASE split_sentences = "None" -> "0"
      [] split_sentences = "PunctuationAndNewlines" -> "nonewlines"
      [] split_sentences = "Punctuation" -> "1"

SplitSentences(split_sentences) ==
    CASE split_sentences = "None" -> "0"
      [] split_sentences = "PunctuationAndNewlines" -> "1"
      [] split_sentences = "Punctuation" -> "nonewlines"

PreserveFormatting(preserve_formatting) ==
    IF preserve_formatting THEN "1" ELSE "0"

Formality(formality) ==
    CASE formality = "Default" -> "default"
      [] formality = "More" -> "more"
      [] formality = "Less" -> "less"

\* if let Some(opt) = options { ... }
OptionsQuery(options) ==
    IF options.some
    THEN LET opt == options.v IN
         (IF opt.split_sentences.some
          THEN <<(<<"split_sentences", SplitSentences(opt.split_sentences.v)>>)>>
          ELSE <<>>)
         \o
         (IF opt.preserve_formatting.some
          THEN <<(<<"preserve_formatting",
                    PreserveFormatting(opt.preserve_formatting.v)>>)>>
          ELSE <<>>)
         \o
         (IF opt.formality.some
          THEN <<(<<"formality", Formality(opt.formality.v)>>)>>
          ELSE <<>>)
    ELSE <<>>

\* for text in text_list.texts { query.push(("text", text)); }
TextQueryReversed(texts) ==
    [k \in 1..Len(texts) |-> <<"text", texts[Len(texts) + 1 - k]>>]

TextQuery(texts) == [k \in 1..Len(texts) |-> <<"text", texts[k]>>]

TranslateQuery(options, text_list) ==
    <<(<<"target_lang", text_list.target_language>>)>>
    \o (IF text_list.source_language.some
        THEN <<(<<"source_lang", text_list.source_language.v>>)>>
        ELSE <<>>)
    \o TextQuery(text_list.texts)
    \o OptionsQuery(options)

\* ------------------------------------------------------------- http_request

Url(free_tier, url) ==
    LET url_mod == IF free_tier THEN "-free" ELSE ""
    IN  "https://api" \o url_mod \o ".deepl.com/v2" \o url

Payload(query, api_key) == Append(query, <<"auth_key", api_key>>)

\* client.post(&url).query(&payload)
Request(self, url, query) ==
    [method |-> "POST",
     url |-> Url(self.free_tier, url),
     query |-> Payload(query, self.api_key)]

\* .send(): the requests an invocation has put on the wire, in order.  The
\* request the operation built is the first.
Send(sent, request) == Append(sent, request)

\* The statuses the redirect policy of Client::new() acts on when the
\* response names a Location.
Redirections == {301, 302, 303, 307, 308}

\* The method of the request that follows a redirect: GET after 301, 302 and
\* 303 unless it was GET or HEAD, the same method after 307 and 308.
RedirectMethod(st, method) ==
    IF (st = 301 \/ st = 302 \/ st = 303) /\ method # "GET" /\ method # "HEAD"
    THEN "GET"
    ELSE method

\* .send() following a redirect: one more request, to the Location, which
\* replaces the URL and with it the query the operation built.
Follow(sent, st, location) ==
    Append(sent, [method |-> RedirectMethod(st, sent[Len(sent)].method),
                  url |-> location,
                  query |-> <<>>])

\* The failure of send() that is the redirect policy giving up.
TooManyRedirects == "too many redirects"

\* The redirect policy: follow until MaxRedirects redirects were followed.
CanFollow(sent) == Len(sent) <= MaxRedirects

UNAUTHORIZED == 401

FORBIDDEN == 403

\* StatusCode::is_success
IsSuccess(st) == 200 <= st /\ st < 300

\* The decimal digits, for a number written out.
Digits == <<"0", "1", "2", "3", "4", "5", "6", "7", "8", "9">>

\* A status code (100..999) written in decimal.
CodeToString(st) ==
    Digits[(st \div 100) + 1] \o Digits[((st \div 10) % 10) + 1] \o Digits[(st % 10) + 1]

\* StatusCode::canonical_reason, None being shown as Display shows it.
CanonicalReason(st) ==
    CASE st = 100 -> "Continue"
      [] st = 101 -> "Switching Protocols"
      [] st = 102 -> "Processing"
      [] st = 103 -> "Early Hints"
      [] st = 200 -> "OK"
      [] st = 201 -> "Created"
      [] st = 202 -> "Accepted"
      [] st = 203 -> "Non Authoritative Information"
      [] st = 204 -> "No Content"
      [] st = 205 -> "Reset Content"
      [] st = 206 -> "Partial Content"
      [] st = 207 -> "Multi-Status"
      [] st = 208 -> "Already Reported"
      [] st = 226 -> "IM Used"
      [] st = 300 -> "Multiple Choices"
      [] st = 301 -> "Moved Permanently"
      [] st = 302 -> "Found"
      [] st = 303 -> "See Other"
      [] st = 304 -> "Not Modified"
      [] st = 305 -> "Use Proxy"
      [] st = 307 -> "Temporary Redirect"
      [] st = 308 -> "Permanent Redirect"
      [] st = 400 -> "Bad Request"
      [] st = 401 -> "Unauthorized"
      [] st = 402 -> "Payment Required"
      [] st = 403 -> "Forbidden"
      [] st = 404 -> "Not Found"
      [] st = 405 -> "Method Not Allowed"
      [] st = 406 -> "Not Acceptable"
      [] st = 407 -> "Proxy Authentication Required"
      [] st = 408 -> "Request Timeout"
      [] st = 409 -> "Conflict"
      [] st = 410 -> "Gone"
      [] st = 411 -> "Length Required"
      [] st = 412 -> "Precondition Failed"
      [] st = 413 -> "Payload Too Large"
      [] st = 414 -> "URI Too Long"
      [] st = 415 -> "Unsupported Media Type"
      [] st = 416 -> "Range Not Satisfiable"
      [] st = 417 -> "Expectation Failed"
      [] st = 418 -> "I'm a teapot"
      [] st = 421 -> "Misdirected Request"
      [] st = 422 -> "Unprocessable Entity"
      [] st = 423 -> "Locked"
      [] st = 424 -> "Failed Dependency"
      [] st = 425 -> "Too Early"
      [] st = 426 -> "Upgrade Required"
      [] st = 428 -> "Precondition Required"
      [] st = 429 -> "Too Many Requests"
      [] st = 431 -> "Request Header Fields Too Large"
      [] st = 451 -> "Unavailable For Legal Reasons"
      [] st = 500 -> "Internal Server Error"
      [] st = 501 -> "Not Implemented"
      [] st = 502 -> "Bad Gateway"
      [] st = 503 -> "Service Unavailable"
      [] st = 504 -> "Gateway Timeout"
      [] st = 505 -> "HTTP Version Not Supported"
      [] st = 506 -> "Variant Also Negotiates"
      [] st = 507 -> "Insufficient Storage"
      [] st = 508 -> "Loop Detected"
      [] st = 510 -> "Not Extended"
      [] st = 511 -> "Network Authentication Required"
      [] OTHER -> "<unknown status code>"

\* StatusCode's Display: the code, a space, the canonical reason phrase.
StatusToString(st) == CodeToString(st) \o " " \o CanonicalReason(st)

\* ------------------------------------------------------------------ Result

NoResult == [kind |-> "none"]

Ok(value) == [kind |-> "Ok", value |-> value]

AuthorizationError == [kind |-> "AuthorizationError"]

ServerError(message) == [kind |-> "ServerError", message |-> message]

DeserializationError == [kind |-> "DeserializationError"]

\* foreign_links { Transport(reqwest::Error) }
Transport(e) == [kind |-> "Transport", cause |-> e]

\* The arms of `match client.post(&url).query(&payload).send().await` for
\* Ok(response): <<where the invocation goes next, what it has returned>>.
OnResponseForbiddenUnhandled(st) ==
    IF IsSuccess(st) THEN <<"json", NoResult>>
    ELSE IF st = UNAUTHORIZED THEN <<"done", AuthorizationError>>
    ELSE <<"error_json", NoResult>>

OnResponse(st) ==
    IF IsSuccess(st) THEN <<"json", NoResult>>
    ELSE IF st = UNAUTHORIZED THEN <<"done", AuthorizationError>>
    ELSE IF st = FORBIDDEN THEN <<"done", AuthorizationError>>
    ELSE <<"error_json", NoResult>>

\* match response.json::<ServerErrorMessage>().await, with the decoder's
\* outcome (None also when the body could not be read).
OnErrorJsonStatusOnly(st, server_error) == ServerError(StatusToString(st))

OnErrorJson(st, server_error) ==
    IF server_error.some
    THEN ServerError(server_error.v.message)
    ELSE ServerError(StatusToString(st))

\* match res.json::<T>().await of the operation, with the decoder's outcome.
OnJsonFirstOnly(operation, content) ==
    IF content.some
    THEN IF operation = "translate"
         THEN Ok(IF content.v.translations = <<>>
                 THEN <<>>
                 ELSE <<Head(content.v.translations)>>)
         ELSE Ok(content.v)
    ELSE DeserializationError

OnJson(operation, content) ==
    IF content.some
    THEN IF operation = "translate"
         THEN Ok(content.v.translations)
         ELSE Ok(content.v)
    ELSE DeserializationError

\* res.json::<T>() with the T of the operation.
Json(operation, j) ==
    CASE operation = "usage_information" -> UsageInformation(j)
      [] operation = "source_languages" -> LanguageList(j)
      [] operation = "target_languages" -> LanguageList(j)
      [] operation = "translate" -> TranslatedTextList(j)

\* DeepL { api_key, free_tier }
DeepLPaidOnly(api_key, free_tier) == [api_key |-> api_key, free_tier |-> FALSE]

DeepL(api_key, free_tier) == [api_key |-> api_key, free_tier |-> free_tier]

\* ------------------------------------------------------------------ state

VARIABLES
    deepl,        \* the handle: [api_key, free_tier]
    constructed,  \* whether new has run
    given,        \* the arguments new was called with
    pc,           \* per invocation: idle, send, json, error_json, done, dropped
    operation,    \* per invocation: the operation invoked
    args,         \* per invocation: [options, text_list] as passed by the caller
    status,       \* per invocation: the status of the response head, if one came
    body,         \* per invocation: the body read, if one was read completely
    neterr,       \* per invocation: the transport failure that hit it, if any
    result,       \* per invocation: what the future resolved to
    wire          \* per invocation: the requests it has sent, in order

vars == <<deepl, constructed, given, pc, operation, args, status, body, neterr,
          result, wire>>

Calls == 1..MaxCalls

\* The suspension points of a future, and the ways it is over.
Suspended == {"send", "json", "error_json"}

Over == {"done", "dropped"}

NoTextList == [source_language |-> None, target_language |-> "", texts |-> <<>>]

NoArgs == [options |-> None, text_list |-> NoTextList]

Init ==
    /\ deepl = [api_key |-> "", free_tier |-> FALSE]
    /\ constructed = FALSE
    /\ given = [api_key |-> "", free_tier |-> FALSE]
    /\ pc = [i \in Calls |-> "idle"]
    /\ operation = [i \in Calls |-> "none"]
    /\ args = [i \in Calls |-> NoArgs]
    /\ status = [i \in Calls |-> None]
    /\ body = [i \in Calls |-> NoBody]
    /\ neterr = [i \in Calls |-> None]
    /\ result = [i \in Calls |-> NoResult]
    /\ wire = [i \in Calls |-> <<>>]

\* ---------------------------------------------------------------- actions

\* pub fn new(api_key, free_tier) -> DeepL
new(keys) ==
    \E api_key \in keys, free_tier \in BOOLEAN :
        /\ ~constructed
        /\ deepl' = DeepL(api_key, free_tier)
        /\ given' = [api_key |-> api_key, free_tier |-> free_tier]
        /\ constructed' = TRUE
        /\ UNCHANGED <<pc, operation, args, status, body, neterr, result, wire>>

\* The slot a new future takes: the lowest idle one.  A caller that awaits
\* each call before the next (alone) starts one only when none is live.
CanStart(i, alone) ==
    /\ constructed
    /\ pc[i] = "idle"
    /\ \A j \in Calls : j < i => pc[j] # "idle"
    /\ alone => \A j \in Calls : pc[j] = "idle"

\* The operation up to `send().await`: the query is built, http_request adds
\* the key and posts the request.
Start(i, op, a, url, query) ==
    /\ pc' = [pc EXCEPT ![i] = "send"]
    /\ operation' = [operation EXCEPT ![i] = op]
    /\ args' = [args EXCEPT ![i] = a]
    /\ wire' = [wire EXCEPT ![i] = Send(@, Request(deepl, url, query))]
    /\ UNCHANGED <<deepl, constructed, given, status, body, neterr, result>>

usage_information(alone) ==
    \E i \in Calls :
        /\ CanStart(i, alone)
        /\ Start(i, "usage_information", NoArgs, "/usage", <<>>)

\* languages("source")
source_languages(alone) ==
    \E i \in Calls :
        /\ CanStart(i, alone)
        /\ Start(i, "source_languages", NoArgs, "/languages",
                 <<(<<"type", "source">>)>>)

\* languages("target")
target_languages(alone) ==
    \E i \in Calls :
        /\ CanStart(i, alone)
        /\ Start(i, "target_languages", NoArgs, "/languages",
                 <<(<<"type", "target">>)>>)

translate(alone, optionss, text_lists) ==
    \E i \in Calls :
        /\ CanStart(i, alone)
        /\ \E options \in optionss, text_list \in text_lists :
               Start(i, "translate", [options |-> options, text_list |-> text_list],
                     "/translate", TranslateQuery(options, text_list))

\* send().await resolves to Err(e): bail!(e)
SendErr(causes) ==
    \E i \in Calls, e \in causes :
        /\ pc[i] = "send"
        /\ pc' = [pc EXCEPT ![i] = "done"]
        /\ neterr' = [neterr EXCEPT ![i] = Some(e)]
        /\ result' = [result EXCEPT ![i] = Transport(e)]
        /\ UNCHANGED <<deepl, constructed, given, operation, args, status, body, wire>>

\* Within send().await: the response is a redirect that names a Location and
\* the policy follows it, so send() puts the next request on the wire and
\* stays pending.
SendRedirect(statuses, locations) ==
    \E i \in Calls, st \in statuses, location \in locations :
        /\ pc[i] = "send"
        /\ st \in Redirections
        /\ CanFollow(wire[i])
        /\ wire' = [wire EXCEPT ![i] = Follow(@, st, location)]
        /\ UNCHANGED <<deepl, constructed, given, pc, operation, args, status, body,
                       neterr, result>>

\* Within send().await: one redirect more than the policy follows, so send()
\* resolves to Err(e): bail!(e)
SendRedirectErr(statuses) ==
    \E i \in Calls, st \in statuses :
        /\ pc[i] = "send"
        /\ st \in Redirections
        /\ ~CanFollow(wire[i])
        /\ pc' = [pc EXCEPT ![i] = "done"]
        /\ neterr' = [neterr EXCEPT ![i] = Some(TooManyRedirects)]
        /\ result' = [result EXCEPT ![i] = Transport(TooManyRedirects)]
        /\ UNCHANGED <<deepl, constructed, given, operation, args, status, body, wire>>

\* send().await resolves to Ok(response) with the response head's status (a
\* redirect status too, when the response names no Location)
SendOk(statuses) ==
    \E i \in Calls, st \in statuses :
        /\ pc[i] = "send"
        /\ status' = [status EXCEPT ![i] = Some(st)]
        /\ pc' = [pc EXCEPT ![i] = OnResponse(st)[1]]
        /\ result' = [result EXCEPT ![i] = OnResponse(st)[2]]
        /\ UNCHANGED <<deepl, constructed, given, operation, args, body, neterr, wire>>

\* res.json::<T>().await in the operation, the body read completely
JsonRead(bodies) ==
    \E i \in Calls, j \in bodies :
        /\ pc[i] = "json"
        /\ body' = [body EXCEPT ![i] = j]
        /\ pc' = [pc EXCEPT ![i] = "done"]
        /\ result' = [result EXCEPT ![i] = OnJson(operation[i], Json(operation[i], j))]
        /\ UNCHANGED <<deepl, constructed, given, operation, args, status, neterr, wire>>

\* res.json::<T>().await in the operation, the transport failing while the
\* body is read: json() returns Err, which the `_` arm takes
JsonErr(causes) ==
    \E i \in Calls, e \in causes :
        /\ pc[i] = "json"
        /\ neterr' = [neterr EXCEPT ![i] = Some(e)]
        /\ pc' = [pc EXCEPT ![i] = "done"]
        /\ result' = [result EXCEPT ![i] = OnJson(operation[i], None)]
        /\ UNCHANGED <<deepl, constructed, given, operation, args, status, body, wire>>

\* response.json::<ServerErrorMessage>().await in http_request, the body read
\* completely
ErrorJsonRead(bodies) ==
    \E i \in Calls, j \in bodies :
        /\ pc[i] = "error_json"
        /\ body' = [body EXCEPT ![i] = j]
        /\ pc' = [pc EXCEPT ![i] = "done"]
        /\ result' = [result EXCEPT ![i] = OnErrorJson(status[i].v, ServerErrorMessage(j))]
        /\ UNCHANGED <<deepl, constructed, given, operation, args, status, neterr, wire>>

\* response.json::<ServerErrorMessage>().await in http_request, the transport
\* failing while the body is read
ErrorJsonErr(causes) ==
    \E i \in Calls, e \in causes :
        /\ pc[i] = "error_json"
        /\ neterr' = [neterr EXCEPT ![i] = Some(e)]
        /\ pc' = [pc EXCEPT ![i] = "done"]
        /\ result' = [result EXCEPT ![i] = OnErrorJson(status[i].v, None)]
        /\ UNCHANGED <<deepl, constructed, given, operation, args, status, body, wire>>

\* The caller drops the future at a suspension point.
Drop ==
    \E i \in Calls :
        /\ pc[i] \in Suspended
        /\ pc' = [pc EXCEPT ![i] = "dropped"]
        /\ UNCHANGED <<deepl, constructed, given, operation, args, status, body,
                       neterr, result, wire>>

\* The caller is through with a future that resolved or was dropped.
Forget ==
    \E i \in Calls :
        /\ pc[i] \in Over
        /\ pc' = [pc EXCEPT ![i] = "idle"]
        /\ operation' = [operation EXCEPT ![i] = "none"]
        /\ args' = [args EXCEPT ![i] = NoArgs]
        /\ status' = [status EXCEPT ![i] = None]
        /\ body' = [body EXCEPT ![i] = NoBody]
        /\ neterr' = [neterr EXCEPT ![i] = None]
        /\ result' = [result EXCEPT ![i] = NoResult]
        /\ wire' = [wire EXCEPT ![i] = <<>>]
        /\ UNCHANGED <<deepl, constructed, given>>

\* ------------------------------------------------- inputs and responses

Keys == {"key-1", "key-2"}

AllTextLists ==
    [source_language : {None, Some("DE")},
     target_language : {"", "EN-US"},
     texts : SeqsUpTo({"ja", "nein"}, MaxTexts)]

AllOptions ==
    {None} \cup
    {Some(opt) : opt \in
        [split_sentences :
            {None, Some("None"), Some("Punctuation"), Some("PunctuationAndNewlines")},
         preserve_formatting : {None, Some(FALSE), Some(TRUE)},
         formality : {None, Some("Default"), Some("More"), Some("Less")}]}

NoOptionSet ==
    Some([split_sentences |-> None, preserve_formatting |-> None, formality |-> None])

OnlyFormalityMore ==
    Some([split_sentences |-> None, preserve_formatting |-> None,
          formality |-> Some("More")])

EveryOptionSet ==
    Some([split_sentences |-> Some("Punctuation"),
          preserve_formatting |-> Some(TRUE),
          formality |-> Some("Less")])

SomeOptions == {None, NoOptionSet, OnlyFormalityMore}

SendFailures == {"dns", "connect", "timeout", "tls"}

BodyFailures == {"timeout", "reset"}

\* Where a redirect sends the request.
Locations == {"https://www.deepl.com/moved"}

\* 1xx, 2xx, 3xx (302 and 307 as they come without a Location), 401, 403,
\* other 4xx (one without a reason phrase), 5xx
Statuses == {101, 200, 201, 300, 302, 304, 307, 401, 403, 404, 429, 456, 500}

Envelope == JObj([message |-> JStr("quota exceeded")])

EnvelopeBodies ==
    {Envelope,
     JObj([message |-> JNum(7)]),
     JObj([detail |-> JStr("quota exceeded")]),
     JArr(<<JStr("quota exceeded")>>),
     JStr("quota exceeded")}

Usage == JObj([character_limit |-> JNum(10), character_count |-> JNum(3)])

UsageWithoutCount == JObj([character_limit |-> JNum(10)])

UsageBodies ==
    {Usage,
     UsageWithoutCount,
     JObj([character_limit |-> JNum(10), character_count |-> JNum(-1)]),
     JObj([character_limit |-> JNum(10), character_count |-> JNum(3),
           message |-> JStr("quota exceeded")]),
     JArr(<<JNum(10), JNum(3)>>)}

LanguageEN == JObj([language |-> JStr("EN"), name |-> JStr("English")])

LanguageDE == JObj([language |-> JStr("DE"), name |-> JStr("German")])

LanguageBodies ==
    {JArr(<<>>),
     JArr(<<LanguageEN, LanguageDE>>),
     JArr(<<LanguageEN, JObj([language |-> JStr("DE")])>>)}

TextYes == JObj([detected_source_language |-> JStr("DE"), text |-> JStr("yes")])

TextNo == JObj([detected_source_language |-> JStr("DE"), text |-> JStr("no")])

NoThenYes == JObj([translations |-> JArr(<<TextNo, TextYes>>)])

TranslateBodies ==
    {JObj([translations |-> JArr(q)]) : q \in SeqsUpTo({TextYes, TextNo}, MaxResults)}
    \cup
    {JObj([translations |-> JArr(<<JObj([text |-> JStr("yes")])>>)]),
     JObj([translations |-> JArr(<<JArr(<<JStr("DE"), JStr("yes")>>)>>)])}

Bodies ==
    {NotJson} \cup EnvelopeBodies \cup UsageBodies \cup LanguageBodies
    \cup TranslateBodies

\* ---------------------------------------------------------- specifications

\* One caller that awaits each call before the next; every response.
Next ==
    \/ new(Keys)
    \/ usage_information(TRUE)
    \/ source_languages(TRUE)
    \/ target_languages(TRUE)
    \/ translate(TRUE, SomeOptions, AllTextLists)
    \/ SendErr(SendFailures)
    \/ SendRedirect(Redirections, Locations)
    \/ SendRedirectErr(Redirections)
    \/ SendOk(Statuses)
    \/ JsonRead(Bodies)
    \/ JsonErr(BodyFailures)
    \/ ErrorJsonRead(Bodies)
    \/ ErrorJsonErr(BodyFailures)
    \/ Drop
    \/ Forget

Spec == Init /\ [][Next]_vars

\* What the transport does to a pending invocation: it answers, redirects or
\* fails, while the head is awaited and while the body is read.
Transported ==
    \/ SendErr(SendFailures)
    \/ SendRedirect(Redirections, Locations)
    \/ SendRedirectErr(Redirections)
    \/ SendOk(Statuses)
    \/ JsonRead(Bodies)
    \/ JsonErr(BodyFailures)
    \/ ErrorJsonRead(Bodies)
    \/ ErrorJsonErr(BodyFailures)

\* The same caller, on a transport that does not leave a pending invocation
\* without answer or failure for ever, and an executor that polls a future
\* that can go on: no await of the code waits for anything else.
SpecLive == Spec /\ WF_vars(Transported)

ConnectFailure == {"connect"}

Timeout == {"timeout"}

OkOrNotFound == {200, 404}

NotJsonOnly == {NotJson}

EnvelopeOnly == {Envelope}

\* One caller that awaits each call before the next; every translation
\* request, a few responses, none of them a redirect that send() follows.
NextRequest ==
    \/ new(Keys)
    \/ usage_information(TRUE)
    \/ source_languages(TRUE)
    \/ target_languages(TRUE)
    \/ translate(TRUE, AllOptions, AllTextLists)
    \/ SendErr(ConnectFailure)
    \/ SendOk(OkOrNotFound)
    \/ JsonRead(NotJsonOnly)
    \/ JsonErr(Timeout)
    \/ ErrorJsonRead(EnvelopeOnly)
    \/ ErrorJsonErr(Timeout)
    \/ Drop
    \/ Forget

SpecRequest == Init /\ [][NextRequest]_vars

OneKey == {"key-1"}

NoOptions == {None}

OneTextList ==
    {[source_language |-> None, target_language |-> "EN-US", texts |-> <<"ja">>]}

OkForbiddenOrError == {200, 403, 500}

UsageOrEnvelope == {Usage, Envelope}

\* Futures of one handle polled concurrently; a few requests and responses,
\* none of them a redirect that send() follows.
NextConcurrent ==
    \/ new(OneKey)
    \/ usage_information(FALSE)
    \/ source_languages(FALSE)
    \/ target_languages(FALSE)
    \/ translate(FALSE, NoOptions, OneTextList)
    \/ SendErr(ConnectFailure)
    \/ SendOk(OkForbiddenOrError)
    \/ JsonRead(UsageOrEnvelope)
    \/ JsonErr(Timeout)
    \/ ErrorJsonRead(UsageOrEnvelope)
    \/ ErrorJsonErr(Timeout)
    \/ Drop
    \/ Forget

SpecConcurrent == Init /\ [][NextConcurrent]_vars

\* ------------------------------------------------------------ properties

Operations == {"usage_information", "source_languages", "target_languages", "translate"}

LanguageOperations == {"source_languages", "target_languages"}

Refusals == {401, 403}

OtherFailures == {101, 300, 302, 304, 307, 404, 429, 456, 500}

\* An invocation that has had a response head with a status in S.
Answered(i, S) == status[i].some /\ status[i].v \in S

\* A body that is a JSON object holding `name` with a string (a number >= 0).
HasString(j, name) == j.t = "obj" /\ name \in DOMAIN j.o /\ j.o[name].t = "str"

HasNumber(j, name) ==
    j.t = "obj" /\ name \in DOMAIN j.o /\ j.o[name].t = "num" /\ j.o[name].n >= 0

\* A body that is a JSON array of n elements, the k-th a string (a number >= 0).
StringAt(j, k, n) == j.t = "arr" /\ Len(j.a) = n /\ j.a[k].t = "str"

NumberAt(j, k, n) == j.t = "arr" /\ Len(j.a) = n /\ j.a[k].t = "num" /\ j.a[k].n >= 0

\* C1: a response with status 401 or 403 makes the invocation return
\* AuthorizationError at once, for each operation: the future is resolved with
\* that error without any body having been read.
C1_AuthorizationError ==
    \A i \in Calls :
        Answered(i, Refusals) =>
            /\ operation[i] \in Operations
            /\ pc[i] = "done"
            /\ result[i] = [kind |-> "AuthorizationError"]
            /\ body[i] = NoBody

C1_Witness ==
    \E i \in Calls :
        /\ Answered(i, Refusals) /\ status[i].v = 403
        /\ operation[i] = "translate"
        /\ result[i].kind = "AuthorizationError"

\* The message the envelope in the body of invocation i gives (an object with
\* a string `message`, or the one-element array serde reads as that struct),
\* and the status description when the body holds no envelope.
C2_Message(i) ==
    IF HasString(body[i], "message") THEN body[i].o.message.s
    ELSE IF StringAt(body[i], 1, 1) THEN body[i].a[1].s
    ELSE StatusToString(status[i].v)

\* C2: a response whose status is neither 2xx nor 401 nor 403 makes the
\* invocation return ServerError, for each operation; its message is the
\* message string of the body when the body decodes as the envelope, and
\* otherwise (no envelope, no JSON, no body, body not read to its end) the
\* status description.
C2_ServerError ==
    \A i \in Calls :
        (/\ pc[i] = "done"
         /\ status[i].some
         /\ ~(200 <= status[i].v /\ status[i].v <= 299)
         /\ status[i].v \notin Refusals) =>
            /\ operation[i] \in Operations
            /\ result[i] = [kind |-> "ServerError", message |-> C2_Message(i)]
            /\ (status[i].v = 429 /\ body[i] = NotJson) =>
                   result[i].message = "429 Too Many Requests"
            /\ (status[i].v = 456 /\ body[i] = NotJson) =>
                   result[i].message = "456 <unknown status code>"

C2_Witness ==
    /\ \E i \in Calls :
        /\ pc[i] = "done" /\ Answered(i, OtherFailures)
        /\ body[i] = Envelope
        /\ result[i].kind = "ServerError" /\ result[i].message = "quota exceeded"

\* The JSON shape the interface gives for each operation's success body:
\* an object with every required field, a field being a string or, for the
\* two counters, a number >= 0; more fields do not matter.
UsageShape(j) == HasNumber(j, "character_limit") /\ HasNumber(j, "character_count")

LanguageShape(j) == HasString(j, "language") /\ HasString(j, "name")

TextShape(j) == HasString(j, "detected_source_language") /\ HasString(j, "text")

Shape(op, j) ==
    CASE op = "usage_information" -> UsageShape(j)
      [] op \in LanguageOperations ->
            j.t = "arr" /\ \A k \in 1..Len(j.a) : LanguageShape(j.a[k])
      [] op = "translate" ->
            /\ j.t = "obj" /\ "translations" \in DOMAIN j.o
            /\ j.o.translations.t = "arr"
            /\ \A k \in 1..Len(j.o.translations.a) : TextShape(j.o.translations.a[k])

\* The same with the positional form of a struct let in: a JSON array that
\* holds exactly the struct's field values, in the order of declaration.
UsageRead(j) == UsageShape(j) \/ (NumberAt(j, 1, 2) /\ NumberAt(j, 2, 2))

LanguageRead(j) == LanguageShape(j) \/ (StringAt(j, 1, 2) /\ StringAt(j, 2, 2))

TextRead(j) == TextShape(j) \/ (StringAt(j, 1, 2) /\ StringAt(j, 2, 2))

TextsRead(j) == j.t = "arr" /\ \A k \in 1..Len(j.a) : TextRead(j.a[k])

Read(op, j) ==
    CASE op = "usage_information" -> UsageRead(j)
      [] op \in LanguageOperations ->
            j.t = "arr" /\ \A k \in 1..Len(j.a) : LanguageRead(j.a[k])
      [] op = "translate" ->
            \/ j.t = "obj" /\ "translations" \in DOMAIN j.o /\ TextsRead(j.o.translations)
            \/ j.t = "arr" /\ Len(j.a) = 1 /\ TextsRead(j.a[1])

\* The value of a field of a struct read from j: by name from an object, by
\* position from an array.
Got(j, name, k) == IF j.t = "obj" THEN j.o[name] ELSE j.a[k]

\* C3 as stated: a 2xx response whose body is not of the operation's JSON
\* shape makes the invocation return DeserializationError.
C3_AsStated ==
    \A i \in Calls :
        (pc[i] = "done" /\ Answered(i, 200..299) /\ ~Shape(operation[i], body[i])) =>
            result[i] = [kind |-> "DeserializationError"]

\* C3: a 2xx response whose body is neither of the operation's JSON shape nor
\* the positional form of it makes the invocation return DeserializationError
\* (also when the body lacks one required field, and when it is not read to
\* its end); the invocation returns a success value only when the whole body
\* decodes, and the value then holds the body's values in every field.
C3_DeserializationError ==
    \A i \in Calls :
        (pc[i] = "done" /\ Answered(i, 200..299)) =>
            /\ operation[i] \in Operations
            /\ ~Read(operation[i], body[i]) =>
                    result[i] = [kind |-> "DeserializationError"]
            /\ Read(operation[i], body[i]) => result[i].kind = "Ok"
            /\ (result[i].kind = "Ok" /\ operation[i] = "usage_information") =>
                    result[i].value =
                        [character_limit |-> Got(body[i], "character_limit", 1).n,
                         character_count |-> Got(body[i], "character_count", 2).n]
            /\ (result[i].kind = "Ok"
                    /\ operation[i] \in LanguageOperations) =>
                    /\ Len(result[i].value) = Len(body[i].a)
                    /\ \A k \in 1..Len(body[i].a) :
                          result[i].value[k] =
                              [language |-> Got(body[i].a[k], "language", 1).s,
                               name |-> Got(body[i].a[k], "name", 2).s]

\* A 2xx body that lacks a required field was answered by the error.
C3_Witness ==
    \E i \in Calls :
        /\ pc[i] = "done" /\ Answered(i, 200..299)
        /\ operation[i] = "usage_information"
        /\ body[i] = UsageWithoutCount
        /\ result[i].kind = "DeserializationError"

\* C4 as stated: a translate call that returns successfully returns as many
\* entries as there are input texts.
C4_AsStated ==
    \A i \in Calls :
        (pc[i] = "done" /\ operation[i] = "translate" /\ result[i].kind = "Ok") =>
            Len(result[i].value) = Len(args[i].text_list.texts)

\* C4: a translate call that returns successfully returns the entries of the
\* response's `translations` array, as many as the server sent and in the
\* server's order, whatever the number of input texts.
C4_ServerOrder ==
    \A i \in Calls :
        (pc[i] = "done" /\ operation[i] = "translate" /\ result[i].kind = "Ok") =>
            LET translations == Got(body[i], "translations", 1).a IN
            /\ Len(result[i].value) = Len(translations)
            /\ \A k \in 1..Len(translations) :
                  result[i].value[k] =
                      [detected_source_language |->
                            Got(translations[k], "detected_source_language", 1).s,
                       text |-> Got(translations[k], "text", 2).s]

\* Two input texts, two entries back, in the order the server gave them.
C4_Witness ==
    \E i \in Calls :
        /\ pc[i] = "done" /\ operation[i] = "translate"
        /\ args[i].text_list.texts = <<"ja", "nein">>
        /\ body[i] = NoThenYes
        /\ result[i].kind = "Ok"
        /\ result[i].value[1].text = "no" /\ result[i].value[2].text = "yes"

\* The values of the parameters called `name` in a query, in order.
Values(q, name) ==
    LET Named(p) == p[1] = name
        ps == SelectSeq(q, Named)
    IN  [k \in 1..Len(ps) |-> ps[k][2]]

\* An invocation of `op` whose request is on the wire or was.
Sent(i, op) == operation[i] = op /\ wire[i] # <<>>

\* C5: the request of a translate call holds one target_lang parameter with
\* the target language (the empty string too), one source_lang parameter with
\* the source language when there is one and none otherwise, and one text
\* parameter per input text, with the texts' values in the texts' order.
C5_TranslateParameters ==
    \A i \in Calls :
        Sent(i, "translate") =>
            LET q == wire[i][1].query
                text_list == args[i].text_list
            IN  /\ Values(q, "target_lang") = <<text_list.target_language>>
                /\ Values(q, "source_lang") =
                        IF text_list.source_language.some
                        THEN <<text_list.source_language.v>>
                        ELSE <<>>
                /\ Values(q, "text") = text_list.texts

\* No source language, the empty target language, two different texts.
C5_Witness ==
    \E i \in Calls :
        /\ Sent(i, "translate")
        /\ args[i].text_list.source_language = None
        /\ args[i].text_list.target_language = ""
        /\ args[i].text_list.texts = <<"ja", "nein">>
        /\ Values(wire[i][1].query, "text") = <<"ja", "nein">>
        /\ Values(wire[i][1].query, "target_lang") = <<"">>

SplitSentencesToken ==
    [None |-> "0", PunctuationAndNewlines |-> "1", Punctuation |-> "nonewlines"]

FormalityToken == [Default |-> "default", More |-> "more", Less |-> "less"]

\* The value an option has in the options passed, if it has one.
Set(options, name) == options.some /\ options.v[name].some

\* C6: the request of a translate call holds, for each of split_sentences,
\* preserve_formatting and formality, one parameter with the option's token
\* when the option is set and none when it is unset or no options are passed,
\* and no parameter besides these, target_lang, source_lang, the texts and
\* auth_key; so options with only formality = more add formality=more alone,
\* and options with nothing set give the request of no options.
C6_OptionParameters ==
    \A i \in Calls :
        Sent(i, "translate") =>
            LET q == wire[i][1].query
                options == args[i].options
                split == Values(q, "split_sentences")
                preserve == Values(q, "preserve_formatting")
                formality == Values(q, "formality")
            IN  /\ split =
                      IF Set(options, "split_sentences")
                      THEN <<SplitSentencesToken[options.v.split_sentences.v]>>
                      ELSE <<>>
                /\ preserve =
                      IF Set(options, "preserve_formatting")
                      THEN <<IF options.v.preserve_formatting.v THEN "1" ELSE "0">>
                      ELSE <<>>
                /\ formality =
                      IF Set(options, "formality")
                      THEN <<FormalityToken[options.v.formality.v]>>
                      ELSE <<>>
                /\ Len(q) = Len(Values(q, "target_lang")) + Len(Values(q, "source_lang"))
                            + Len(Values(q, "text")) + Len(split) + Len(preserve)
                            + Len(formality) + Len(Values(q, "auth_key"))
                /\ options = OnlyFormalityMore =>
                      split = <<>> /\ preserve = <<>> /\ formality = <<"more">>
                /\ (options = None \/ options = NoOptionSet) =>
                      split = <<>> /\ preserve = <<>> /\ formality = <<>>

\* Every option set, split_sentences to punctuation only.
C6_Witness ==
    \E i \in Calls :
        /\ Sent(i, "translate")
        /\ args[i].options = EveryOptionSet
        /\ Values(wire[i][1].query, "split_sentences") = <<"nonewlines">>
        /\ Values(wire[i][1].query, "preserve_formatting") = <<"1">>
        /\ Values(wire[i][1].query, "formality") = <<"less">>

Endpoint ==
    [usage_information |-> "/usage", source_languages |-> "/languages",
     target_languages |-> "/languages", translate |-> "/translate"]

\* The parameters of a query but auth_key, in order.
OwnParameters(q) == LET Own(p) == p[1] # "auth_key" IN SelectSeq(q, Own)

\* C7: every request is a POST to https://api-free.deepl.com/v2<endpoint> when
\* the handle was constructed with free_tier = true and to
\* https://api.deepl.com/v2<endpoint> otherwise, the endpoint being the
\* operation's; it holds one auth_key parameter, with the key given at
\* construction, and the operation's own parameters as the operation built
\* them.
C7_HostAndKey ==
    \A i \in Calls :
        \A k \in 1..Len(wire[i]) :
            LET request == wire[i][k]
                q == request.query
            IN  /\ operation[i] \in Operations
                /\ request.method = "POST"
                /\ request.url =
                      (IF given.free_tier
                       THEN "https://api-free.deepl.com/v2"
                       ELSE "https://api.deepl.com/v2") \o Endpoint[operation[i]]
                /\ Values(q, "auth_key") = <<given.api_key>>
                /\ q = Append(OwnParameters(q), <<"auth_key", given.api_key>>)
                /\ operation[i] = "usage_information" => OwnParameters(q) = <<>>
                /\ operation[i] = "source_languages" =>
                      OwnParameters(q) = <<(<<"type", "source">>)>>
                /\ operation[i] = "target_languages" =>
                      OwnParameters(q) = <<(<<"type", "target">>)>>
                /\ operation[i] = "translate" =>
                      /\ OwnParameters(q)[1] =
                            <<"target_lang", args[i].text_list.target_language>>
                      /\ Values(OwnParameters(q), "text") = args[i].text_list.texts

Outcomes ==
    {"Ok", "AuthorizationError", "ServerError", "DeserializationError", "Transport"}

\* At any time: an invocation has sent one request from its start on and
\* never a second one, whatever became of the first; when it is over it has a
\* success value or an error of one of the four kinds, and it has no result
\* before; constructing the handle sends nothing.
C8_OneRequest ==
    /\ \A i \in Calls :
        /\ Len(wire[i]) <= 1
        /\ pc[i] = "idle" <=> wire[i] = <<>>
        /\ pc[i] = "done" <=> result[i].kind \in Outcomes
        /\ pc[i] # "done" => result[i] = NoResult
    /\ ~constructed => \A i \in Calls : pc[i] = "idle"

\* An invocation that is pending ends with one of the five outcomes, unless
\* its caller drops it first.
C8_Ends ==
    \A i \in Calls :
        (pc[i] \in Suspended) ~>
            (\/ pc[i] = "done" /\ result[i].kind \in Outcomes
             \/ pc[i] = "dropped")

\* C8: every invocation issues exactly one request and then ends, with a
\* success value or with exactly one of the four error kinds; after a failure
\* it issues no second request; constructing the handle issues none.
C8_OneRequestThenEnds == []C8_OneRequest /\ C8_Ends

\* C9: an invocation hit by a failure of the transport, while sending or
\* while the response is read, returns the transport error that wraps the
\* failure; and one that got its whole response returns no transport error.
C9_TransportError ==
    \A i \in Calls :
        pc[i] = "done" =>
            /\ neterr[i].some => result[i] = [kind |-> "Transport", cause |-> neterr[i].v]
            /\ result[i].kind = "Transport" => neterr[i].some

\* The handle holds what new was given.
C10_Handle == constructed => deepl = given

\* A step that is not invocation i's changes nothing of invocation i.
C10_OwnStep ==
    \A i \in Calls :
        pc'[i] = pc[i] =>
            /\ operation'[i] = operation[i] /\ args'[i] = args[i]
            /\ status'[i] = status[i] /\ body'[i] = body[i]
            /\ neterr'[i] = neterr[i] /\ result'[i] = result[i]
            /\ wire'[i] = wire[i]

\* Equal operation, inputs and response: equal request and result.
C10_SameResult ==
    \A i, j \in Calls :
        (/\ pc[i] = "done" /\ pc[j] = "done"
         /\ operation[i] = operation[j] /\ args[i] = args[j]
         /\ status[i] = status[j] /\ body[i] = body[j] /\ neterr[i] = neterr[j]) =>
            result[i] = result[j] /\ wire[i] = wire[j]

\* C10: the handle keeps the key and the tier flag given at construction; the
\* step of one invocation leaves every other invocation's request, response
\* and result as they were; and two invocations of the same operation with
\* the same inputs and the same response end with the same result, whatever
\* ran beside them, failed or was dropped in flight.
C10_Isolation ==
    /\ [](C10_Handle /\ C10_SameResult)
    /\ [][C10_OwnStep /\ (constructed => deepl' = deepl)]_vars

\* One future dropped in flight beside one that resolved to a value.
C10_Witness ==
    \E i, j \in Calls :
        /\ pc[i] = "dropped" /\ operation[i] = "translate"
        /\ pc[j] = "done" /\ operation[j] = "usage_information"
        /\ result[j].kind = "Ok"
        /\ deepl = given /\ given.free_tier

=============================================================================
